---- MODULE Spec2Model ----
(***************************************************************************)
(* Model of ommsystem.py: the OMMSystem builder and its three subclasses   *)
(* OMMSystemAmberTRE, OMMSystemAmberABFE and OMMSystemAmberRBFE.           *)
(*                                                                         *)
(* One behaviour is one process: a builder of one mode is constructed from *)
(* a keyword dictionary and create_system runs once, statement group by    *)
(* statement group (pc names the group that runs next).  A Python          *)
(* exception ends the run: outcome names it and pc stays on the group      *)
(* that raised it.                                                         *)
(*                                                                         *)
(* Python values read from the control file are records [t, v]:           *)
(*   t = "none"  None;                                                     *)
(*   t = "list"  a list of strings, v its items;                           *)
(*   t = "str"   a string, v its fields between commas (v = <<"">> is the  *)
(*               empty string, as ''.split(',') = ['']).                   *)
(* Numbers are integers; an amount of energy divided by kilojoules_per_mole*)
(* is kept in J/mol (kcal/mol * 4184).                                     *)
(***************************************************************************)
EXTENDS Integers, Sequences, FiniteSets, TLC

\* Largest topology size tried (the prmtop file decides getNumAtoms()).
MaxAtoms == 4
\* How many keywords of a complete control file are removed or replaced.
MaxChanged == 2

VARIABLES
    mode,          \* which subclass is built: "TRE", "ABFE" or "RBFE"
    prmtopfile,    \* the topology file: [natoms |-> n]
    keywords,      \* self.keywords: function from the present keys to values
    pc,            \* the statement group that runs next
    outcome,       \* "running", "ok", or the name of the exception raised
    stdout,        \* the messages printed
    system, topology, positions, boxvectors, integrator,   \* output fields
    parameter,     \* self.parameter, an ordered dict: sequence of <<key, name>>
    cparams,       \* self.cparams, an ordered dict: sequence of <<key, value>>
    frictionCoeff, MDstepsize,
    atmforce, displ, lig1offset, lig2offset, refatoms1, refatoms2,
    locals,        \* the local variables of create_system that outlive a group
    calls          \* the calls made on self.system and atm_utils, in order

vars == <<mode, prmtopfile, keywords, pc, outcome, stdout, system, topology,
          positions, boxvectors, integrator, parameter, cparams, frictionCoeff,
          MDstepsize, atmforce, displ, lig1offset, lig2offset, refatoms1,
          refatoms2, locals, calls>>

Modes == {"TRE", "ABFE", "RBFE"}

----------------------------------------------------------------------------
\* Python values

None_ == [t |-> "none", v |-> <<>>]
PyList(s) == [t |-> "list", v |-> s]
PyStr(s) == [t |-> "str", v |-> s]

\* bool(x) of a keyword value: None, [] and '' are false.
Truthy(x) ==
    \/ x.t = "list" /\ x.v # <<>>
    \/ x.t = "str" /\ x.v # <<"">>

\* The numerals the control files of the model use, with their values.
Numeral ==
    ("0" :> 0) @@ ("1" :> 1) @@ ("2" :> 2) @@ ("3" :> 3) @@ ("4" :> 4) @@
    ("5" :> 5) @@ ("9" :> 9) @@ ("-3" :> -3)

\* A result of an expression: exc = "" and its value, or the exception raised.
Ok(val) == [exc |-> "", val |-> val]
Raise(exc) == [exc |-> exc, val |-> <<>>]

\* float(x) and int(x) of one keyword value or list item.
PyNumber(tok) == IF tok \in DOMAIN Numeral THEN Ok(Numeral[tok]) ELSE Raise("ValueError")

PyFloat(x) ==
    IF x.t # "str" THEN Raise("TypeError")
    ELSE IF Len(x.v) # 1 THEN Raise("ValueError")
    ELSE PyNumber(x.v[1])

\* [conv(i) for i in items]: the converted items, or the first exception.
ConvertAll(items) ==
    IF \E i \in 1..Len(items) : PyNumber(items[i]).exc # ""
    THEN Raise("ValueError")
    ELSE Ok([i \in 1..Len(items) |-> Numeral[items[i]]])

\* [int(i) for i in x] of a keyword value (a list of strings, or None).
IntList(x) ==
    IF x.t = "none" THEN Raise("TypeError")
    ELSE ConvertAll(x.v)

\* [float(f) for f in x.split(',')]: only a string has split.
SplitFloats(x) ==
    IF x.t # "str" THEN Raise("AttributeError")
    ELSE ConvertAll(x.v)

\* The first exception of a sequence of results evaluated in order, or "".
RECURSIVE FirstExc(_)
FirstExc(rs) ==
    IF rs = <<>> THEN ""
    ELSE IF Head(rs).exc # "" THEN Head(rs).exc
    ELSE FirstExc(Tail(rs))

\* keywords.get(k)
Get(kw, k) == IF k \in DOMAIN kw THEN kw[k] ELSE None_

\* d[k] = v on an ordered dict kept as a sequence of pairs.
DictSet(d, k, val) ==
    IF \E i \in 1..Len(d) : d[i][1] = k
    THEN [i \in 1..Len(d) |-> IF d[i][1] = k THEN <<k, val>> ELSE d[i]]
    ELSE Append(d, <<k, val>>)

\* quantity in kcal/mol divided by kilojoules_per_mole
InKilojoules(q) == q * 4184


----------------------------------------------------------------------------
\* Inputs: the control file (keywords) and the topology file

\* The keywords each mode reads.
KeysOf(m) ==
    {"FRICTION_COEFF", "TIME_STEP"} \cup
    (IF m = "TRE" THEN {}
     ELSE {"DISPLACEMENT", "CM_KF", "CM_TOL", "POS_RESTRAINED_ATOMS",
           "POSRE_FORCE_CONSTANT", "POSRE_TOLERANCE", "UMAX", "UBCORE", "ACORE"}) \cup
    (IF m = "ABFE" THEN {"LIGAND_ATOMS", "LIGAND_CM_ATOMS", "RCPT_CM_ATOMS", "LIGOFFSET"}
     ELSE {}) \cup
    (IF m = "RBFE"
     THEN {"LIGAND1_ATOMS", "LIGAND2_ATOMS", "REST_LIGAND1_CMLIG_ATOMS",
           "REST_LIGAND2_CMLIG_ATOMS", "REST_LIGAND_CMREC_ATOMS",
           "ALIGN_LIGAND1_REF_ATOMS", "ALIGN_LIGAND2_REF_ATOMS", "ALIGN_KF_SEP",
           "ALIGN_K_THETA", "ALIGN_K_PSI"}
     ELSE {})

\* A complete control file: every keyword of the mode given, every optional
\* restraint requested.
CompleteValue(k) ==
    CASE k = "FRICTION_COEFF" -> PyStr(<<"1">>)
      [] k = "TIME_STEP" -> PyStr(<<"2">>)
      [] k = "DISPLACEMENT" -> PyStr(<<"5", "0", "-3">>)
      [] k = "CM_KF" -> PyStr(<<"5">>)
      [] k = "CM_TOL" -> PyStr(<<"3">>)
      [] k = "POS_RESTRAINED_ATOMS" -> PyList(<<"0">>)
      [] k = "POSRE_FORCE_CONSTANT" -> PyStr(<<"4">>)
      [] k = "POSRE_TOLERANCE" -> PyStr(<<"1">>)
      [] k = "UMAX" -> PyStr(<<"2">>)
      [] k = "UBCORE" -> PyStr(<<"1">>)
      [] k = "ACORE" -> PyStr(<<"3">>)
      [] k = "LIGAND_ATOMS" -> PyList(<<"1", "2">>)
      [] k = "LIGAND_CM_ATOMS" -> PyList(<<"1">>)
      [] k = "RCPT_CM_ATOMS" -> PyList(<<"0">>)
      [] k = "LIGOFFSET" -> PyStr(<<"1", "0", "0">>)
      [] k = "LIGAND1_ATOMS" -> PyList(<<"1">>)
      [] k = "LIGAND2_ATOMS" -> PyList(<<"2", "0">>)
      [] k = "REST_LIGAND1_CMLIG_ATOMS" -> PyList(<<"1">>)
      [] k = "REST_LIGAND2_CMLIG_ATOMS" -> PyList(<<"2">>)
      [] k = "REST_LIGAND_CMREC_ATOMS" -> PyList(<<"0">>)
      [] k = "ALIGN_LIGAND1_REF_ATOMS" -> PyList(<<"0", "0", "1">>)
      [] k = "ALIGN_LIGAND2_REF_ATOMS" -> PyList(<<"0", "1", "0">>)
      [] k = "ALIGN_KF_SEP" -> PyStr(<<"2">>)
      [] k = "ALIGN_K_THETA" -> PyStr(<<"3">>)
      [] k = "ALIGN_K_PSI" -> PyStr(<<"4">>)

Absent == [t |-> "absent", v |-> <<>>]

\* What a keyword of the complete file may be replaced by: it is left out,
\* given empty, or given another value (malformed or well-formed).
Alternatives(k) ==
    {Absent} \cup
    CASE k \in {"LIGAND_ATOMS"} -> {PyList(<<>>), PyList(<<"2", "9">>)}
      [] k \in {"LIGAND1_ATOMS"} -> {PyList(<<>>), PyList(<<"2", "1">>)}
      [] k \in {"LIGAND2_ATOMS"} -> {PyList(<<>>), PyList(<<"1", "2">>)}
      [] k \in {"LIGAND_CM_ATOMS", "RCPT_CM_ATOMS", "REST_LIGAND1_CMLIG_ATOMS",
                "REST_LIGAND2_CMLIG_ATOMS", "REST_LIGAND_CMREC_ATOMS",
                "POS_RESTRAINED_ATOMS"} -> {PyList(<<>>)}
      [] k \in {"ALIGN_LIGAND1_REF_ATOMS", "ALIGN_LIGAND2_REF_ATOMS"} ->
            {PyList(<<"0", "1">>)}
      [] k = "DISPLACEMENT" -> {PyStr(<<"">>), PyStr(<<"4", "0">>)}
      [] k = "UBCORE" -> {PyStr(<<"">>)}
      [] k = "LIGOFFSET" -> {PyStr(<<"">>)}
      [] k = "CM_KF" -> {PyStr(<<"x">>)}
      [] OTHER -> {}

AllAlternatives == UNION {Alternatives(k) : k \in KeysOf("ABFE") \cup KeysOf("RBFE")}

\* The sets of at most n keys of keys.
RECURSIVE SetsUpTo(_, _)
SetsUpTo(keys, n) ==
    IF n = 0 THEN {{}}
    ELSE LET P == SetsUpTo(keys, n - 1) IN P \cup {T \cup {k} : T \in P, k \in keys}

\* The complete file of mode m with the keys of S replaced as f says.
Changed(m, S, f) ==
    [k \in {j \in KeysOf(m) : j \notin S \/ f[j] # Absent} |->
        IF k \in S THEN f[k] ELSE CompleteValue(k)]

\* The control files tried: complete but for at most MaxChanged keywords.
ControlFiles(m) ==
    UNION {{Changed(m, S, f) :
                f \in {g \in [S -> AllAlternatives] : \A k \in S : g[k] \in Alternatives(k)}} :
           S \in SetsUpTo(KeysOf(m), MaxChanged)}

\* The topology sizes tried.
AtomCounts == (MaxAtoms - 1)..MaxAtoms

----------------------------------------------------------------------------
\* Construction

NoLocals ==
    [lig_atoms |-> None_, lig2_atoms |-> None_, lig_atom_restr |-> None_,
     lig2_atom_restr |-> None_, rcpt_atom_restr |-> None_,
     umsc |-> 0, ubcore |-> 0, acore |-> 0]

Init ==
    /\ mode \in Modes
    /\ prmtopfile \in {[natoms |-> n] : n \in AtomCounts}
    /\ keywords \in ControlFiles(mode)
    /\ pc = "init"
    /\ outcome = "running"
    /\ stdout = <<>>
    /\ system = None_ /\ topology = None_ /\ positions = None_
    /\ boxvectors = None_ /\ integrator = None_
    /\ parameter = <<>> /\ cparams = <<>>
    /\ frictionCoeff = None_ /\ MDstepsize = None_
    /\ atmforce = None_ /\ displ = None_
    /\ lig1offset = None_ /\ lig2offset = None_
    /\ refatoms1 = None_ /\ refatoms2 = None_
    /\ locals = NoLocals
    /\ calls = <<>>

\* OMMSystem.__init__ lines 30-34: the names every mode stores.
BaseParameter ==
    DictSet(DictSet(DictSet(<<>>, "stateid", "REStateId"), "cycle", "RECycle"),
            "mdsteps", "REMDSteps")

\* The names the subclass constructors add.
TREParameter(p) ==
    DictSet(DictSet(p, "temperature", "RETemperature"), "potential_energy", "REPotEnergy")

\* A constructor that forgets the perturbation-energy name.
ParameterWithoutPerturbation(p) ==
    DictSet(DictSet(p, "temperature", "RETemperature"), "potential_energy", "REPotEnergy")

ABFEParameter(p) ==
    DictSet(DictSet(DictSet(p, "temperature", "RETemperature"),
                    "potential_energy", "REPotEnergy"),
            "perturbation_energy", "REPertEnergy")

RBFEParameter(p) ==
    DictSet(DictSet(DictSet(p, "temperature", "RETemperature"),
                    "potential_energy", "REPotEnergy"),
            "perturbation_energy", "REPertEnergy")

SubclassParameter(m, p) ==
    CASE m = "TRE" -> TREParameter(p)
      [] m = "ABFE" -> ABFEParameter(p)
      [] m = "RBFE" -> RBFEParameter(p)

\* The constructor of the mode's class: OMMSystem.__init__ through super(),
\* then the subclass's own assignments.  float(None) of a missing
\* FRICTION_COEFF or TIME_STEP raises inside OMMSystem.__init__, after
\* self.parameter and self.cparams were assigned.
Construct ==
    /\ pc = "init" /\ outcome = "running"
    /\ LET fc == PyFloat(Get(keywords, "FRICTION_COEFF"))
           dt == PyFloat(Get(keywords, "TIME_STEP"))
           exc == FirstExc(<<fc, dt>>)
       IN /\ frictionCoeff' = IF fc.exc = "" THEN fc.val ELSE None_
          /\ MDstepsize' = IF exc = "" THEN dt.val ELSE None_
          /\ IF exc = ""
             THEN /\ parameter' = SubclassParameter(mode, BaseParameter)
                  /\ pc' = "load"
                  /\ outcome' = outcome
             ELSE /\ parameter' = BaseParameter
                  /\ pc' = pc
                  /\ outcome' = exc
    /\ cparams' = <<>>
    /\ UNCHANGED <<mode, prmtopfile, keywords, stdout, system, topology, positions,
                   boxvectors, integrator, atmforce, displ, lig1offset, lig2offset,
                   refatoms1, refatoms2, locals, calls>>


----------------------------------------------------------------------------
\* create_system: what every statement group shares

\* An exception leaves create_system: nothing after the raising statement
\* runs.  out is what was printed before it.
Abort(exc, out) ==
    /\ outcome' = exc
    /\ stdout' = stdout \o out
    /\ UNCHANGED <<mode, prmtopfile, keywords, pc, system, topology, positions,
                   boxvectors, integrator, parameter, cparams, frictionCoeff,
                   MDstepsize, atmforce, displ, lig1offset, lig2offset, refatoms1,
                   refatoms2, locals, calls>>

\* The number of positional parameters of "def _exit(message)".
ExitParams == 1

\* self._exit(msg): a call through the instance passes self and msg.  With as
\* many parameters the body runs: it prints msg and sys.exit(1) raises
\* SystemExit(1); otherwise the call itself raises TypeError and nothing is
\* printed.
SelfExit(msg) ==
    IF 1 + 1 = ExitParams
    THEN [exc |-> "SystemExit(1)", out |-> <<msg>>]
    ELSE [exc |-> "TypeError", out |-> <<>>]

\* AmberPrmtopFile, AmberInpcrdFile, prmtop.createSystem and the fields read
\* from them; withBox says whether self.boxvectors is assigned too.
LoadFiles(withBox, next) ==
    /\ pc = "load" /\ outcome = "running"
    /\ system' = [t |-> "System", v |-> <<>>]
    /\ topology' = [t |-> "Topology", natoms |-> prmtopfile.natoms]
    /\ positions' = [t |-> "Positions", v |-> <<>>]
    /\ boxvectors' = IF withBox THEN [t |-> "BoxVectors", v |-> <<>>] ELSE boxvectors
    /\ pc' = next
    /\ UNCHANGED <<mode, prmtopfile, keywords, outcome, stdout, integrator, parameter,
                   cparams, frictionCoeff, MDstepsize, atmforce, displ, lig1offset,
                   lig2offset, refatoms1, refatoms2, locals, calls>>

\* A barostat left as constructed: group 0, frequency 25.
BarostatAsConstructed ==
    [t |-> "MonteCarloBarostat", pressure |-> 1, temperature |-> 300,
     group |-> 0, frequency |-> 25]

\* MonteCarloBarostat(1*bar, temperature) with group 1 and frequency 0.
Barostat ==
    [t |-> "MonteCarloBarostat", pressure |-> 1, temperature |-> 300,
     group |-> 1, frequency |-> 0]

AddBarostat(next) ==
    /\ pc = "barostat" /\ outcome = "running"
    /\ calls' = Append(calls, [op |-> "addForce", arg |-> Barostat])
    /\ pc' = next
    /\ UNCHANGED <<mode, prmtopfile, keywords, outcome, stdout, system, topology,
                   positions, boxvectors, integrator, parameter, cparams,
                   frictionCoeff, MDstepsize, atmforce, displ, lig1offset,
                   lig2offset, refatoms1, refatoms2, locals>>

\* The global parameters registered under the keys instead of the names.
SForceGlobalsByKey(p) == [i \in 1..Len(p) |-> <<p[i][1], 0>>]

\* for name in self.parameter: sforce.addGlobalParameter(self.parameter[name], 0)
SForceGlobals(p) == [i \in 1..Len(p) |-> <<p[i][2], 0>>]

\* mm.CustomBondForce("1") with the global parameters and group 1.
SForce(p) ==
    [t |-> "CustomBondForce", energy |-> "1", globals |-> SForceGlobals(p), group |-> 1]

AddSForce(next) ==
    /\ pc = "sforce" /\ outcome = "running"
    /\ calls' = Append(calls, [op |-> "addForce", arg |-> SForce(parameter)])
    /\ pc' = next
    /\ UNCHANGED <<mode, prmtopfile, keywords, outcome, stdout, system, topology,
                   positions, boxvectors, integrator, parameter, cparams,
                   frictionCoeff, MDstepsize, atmforce, displ, lig1offset,
                   lig2offset, refatoms1, refatoms2, locals>>

\* The force groups an integrator integrates unless told otherwise: all 32.
AllForceGroups == 0..31

\* setIntegrationForceGroups({1,3})
ATMForceGroups == {1, 3}

\* LangevinIntegrator(temperature/kelvin, friction, step size)
Langevin(groups) ==
    [t |-> "LangevinIntegrator", temperature |-> 300, friction |-> frictionCoeff,
     stepsize |-> MDstepsize, groups |-> groups]

SetIntegrator(groups, next, result) ==
    /\ pc = "integrator" /\ outcome = "running"
    /\ integrator' = Langevin(groups)
    /\ pc' = next
    /\ outcome' = result
    /\ UNCHANGED <<mode, prmtopfile, keywords, stdout, system, topology, positions,
                   boxvectors, parameter, cparams, frictionCoeff, MDstepsize,
                   atmforce, displ, lig1offset, lig2offset, refatoms1, refatoms2,
                   locals, calls>>

\* The control parameters stored without the division by kilojoules_per_mole.
ControlParamsUnconverted(c, l) ==
    DictSet(DictSet(DictSet(c, "ATMUmax", l.umsc), "ATMUbcore", l.ubcore),
            "ATMAcore", l.acore)

\* The three cparams assignments that end the ABFE and RBFE create_system.
ControlParams(c, l) ==
    DictSet(DictSet(DictSet(c, "ATMUmax", InKilojoules(l.umsc)),
                    "ATMUbcore", InKilojoules(l.ubcore)),
            "ATMAcore", l.acore)

SetCparams ==
    /\ pc = "cparams" /\ outcome = "running"
    /\ cparams' = ControlParams(cparams, locals)
    /\ pc' = "done"
    /\ outcome' = "ok"
    /\ UNCHANGED <<mode, prmtopfile, keywords, stdout, system, topology, positions,
                   boxvectors, integrator, parameter, frictionCoeff, MDstepsize,
                   atmforce, displ, lig1offset, lig2offset, refatoms1, refatoms2,
                   locals, calls>>

\* POS_RESTRAINED_ATOMS: addPosRestraints when the list is given non-empty.
PosRestraints(next) ==
    /\ pc = "posre" /\ outcome = "running"
    /\ LET lst == Get(keywords, "POS_RESTRAINED_ATOMS")
           atoms == IntList(lst)
           fc == PyFloat(Get(keywords, "POSRE_FORCE_CONSTANT"))
           tol == PyFloat(Get(keywords, "POSRE_TOLERANCE"))
           exc == IF Truthy(lst) THEN FirstExc(<<atoms, fc, tol>>) ELSE ""
       IN IF exc # "" THEN Abort(exc, <<>>)
          ELSE /\ calls' = IF Truthy(lst)
                           THEN Append(calls,
                                  [op |-> "addPosRestraints",
                                   arg |-> [atoms |-> atoms.val, positions |-> positions,
                                            fc |-> fc.val, tol |-> tol.val]])
                           ELSE calls
               /\ pc' = next
               /\ UNCHANGED <<mode, prmtopfile, keywords, outcome, stdout, system,
                              topology, positions, boxvectors, integrator, parameter,
                              cparams, frictionCoeff, MDstepsize, atmforce, displ,
                              lig1offset, lig2offset, refatoms1, refatoms2, locals>>

\* The soft-core parameters UMAX, UBCORE (0 when not given) and ACORE.
SoftCoreUbcore(ub) == IF Truthy(ub) THEN PyFloat(ub) ELSE Ok(0)

SoftCore(next) ==
    /\ pc = "softcore" /\ outcome = "running"
    /\ LET umsc == PyFloat(Get(keywords, "UMAX"))
           ubcore == SoftCoreUbcore(Get(keywords, "UBCORE"))
           acore == PyFloat(Get(keywords, "ACORE"))
           exc == FirstExc(<<umsc, ubcore, acore>>)
       IN IF exc # "" THEN Abort(exc, <<>>)
          ELSE /\ locals' = [locals EXCEPT !.umsc = umsc.val, !.ubcore = ubcore.val,
                                           !.acore = acore.val]
               /\ pc' = next
               /\ UNCHANGED <<mode, prmtopfile, keywords, outcome, stdout, system,
                              topology, positions, boxvectors, integrator, parameter,
                              cparams, frictionCoeff, MDstepsize, atmforce, displ,
                              lig1offset, lig2offset, refatoms1, refatoms2, calls>>


----------------------------------------------------------------------------
\* The ATM force

\* ATMMetaForce(lambda1, lambda2, alpha, u0, w0coeff, umsc, ubcore, acore),
\* energies divided by kilojoules_per_mole; a new force is in group 0.
NewATMForce(l) ==
    [t |-> "ATMMetaForce", lambda1 |-> 0, lambda2 |-> 0, alpha |-> 0, u0 |-> 0,
     w0coeff |-> 0, umax |-> InKilojoules(l.umsc), ubcore |-> InKilojoules(l.ubcore),
     acore |-> l.acore, particles |-> <<>>, group |-> 0]

\* for i in range(getNumAtoms()): addParticle(i, 0., 0., 0.)
AddParticles(n) == [k \in 1..n |-> [particle |-> k - 1, d |-> <<0, 0, 0>>]]

Negated(d) == [k \in 1..Len(d) |-> 0 - d[k]]

\* for i in atoms: setParticleParameters(i, i, d[0], d[1], d[2]).  The
\* arguments are evaluated first (d[2] of a shorter d raises IndexError), then
\* the engine refuses an index that is no particle of the force.  val is the
\* particle list as the loop left it.
RECURSIVE SetDisplacements(_, _, _)
SetDisplacements(particles, atoms, d) ==
    IF atoms = <<>> THEN [exc |-> "", val |-> particles]
    ELSE IF Len(d) < 3 THEN [exc |-> "IndexError", val |-> particles]
    ELSE LET i == Head(atoms) IN
         IF i < 0 \/ i >= Len(particles)
         THEN [exc |-> "OpenMMException", val |-> particles]
         ELSE SetDisplacements(
                  [particles EXCEPT ![i + 1] = [particle |-> i, d |-> <<d[1], d[2], d[3]>>]],
                  Tail(atoms), d)

\* ABFE lines 178-181: the ligand atoms carry the displacement.
ABFEParticles(n, l, d) == SetDisplacements(AddParticles(n), l.lig_atoms.v, d)

\* The two ligand loops in the other order.
RBFEParticlesLigand2First(n, l, d) ==
    LET first == SetDisplacements(AddParticles(n), l.lig2_atoms.v, Negated(d))
    IN IF first.exc # "" THEN first
       ELSE SetDisplacements(first.val, l.lig_atoms.v, d)

\* RBFE lines 339-344: ligand 1 carries the displacement, then ligand 2 its
\* negative.
RBFEParticles(n, l, d) ==
    LET first == SetDisplacements(AddParticles(n), l.lig_atoms.v, d)
    IN IF first.exc # "" THEN first
       ELSE SetDisplacements(first.val, l.lig2_atoms.v, Negated(d))

\* The ATM force is created, filled, put in group 3 and added to the system.
\* An exception of the loops leaves self.atmforce as built so far.
AddATMForce(filled) ==
    /\ pc = "atmforce" /\ outcome = "running"
    /\ IF filled.exc # ""
       THEN /\ atmforce' = [NewATMForce(locals) EXCEPT !.particles = filled.val]
            /\ outcome' = filled.exc
            /\ UNCHANGED <<pc, calls>>
       ELSE /\ atmforce' = [NewATMForce(locals) EXCEPT !.particles = filled.val,
                                                       !.group = 3]
            /\ calls' = Append(calls, [op |-> "addForce", arg |-> atmforce'])
            /\ pc' = "barostat"
            /\ outcome' = outcome
    /\ UNCHANGED <<mode, prmtopfile, keywords, stdout, system, topology, positions,
                   boxvectors, integrator, parameter, cparams, frictionCoeff,
                   MDstepsize, displ, lig1offset, lig2offset, refatoms1, refatoms2,
                   locals>>

----------------------------------------------------------------------------
\* OMMSystemAmberTRE.create_system

TRE_Load == mode = "TRE" /\ LoadFiles(FALSE, "barostat")
TRE_Barostat == mode = "TRE" /\ AddBarostat("sforce")
TRE_SForce == mode = "TRE" /\ AddSForce("integrator")
TRE_Integrator == mode = "TRE" /\ SetIntegrator(AllForceGroups, "done", "ok")

----------------------------------------------------------------------------
\* OMMSystemAmberABFE.create_system

ABFE_Load == mode = "ABFE" /\ LoadFiles(TRUE, "lig_atoms")

\* LIGAND_ATOMS is required.
ABFE_LigAtoms ==
    /\ mode = "ABFE" /\ pc = "lig_atoms" /\ outcome = "running"
    /\ LET lig == Get(keywords, "LIGAND_ATOMS")
           atoms == IntList(lig)
           quit == SelfExit("Error: LIGAND_ATOMS is required")
       IN IF ~Truthy(lig) THEN Abort(quit.exc, quit.out)
          ELSE IF atoms.exc # "" THEN Abort(atoms.exc, <<>>)
          ELSE /\ locals' = [locals EXCEPT !.lig_atoms = PyList(atoms.val)]
               /\ pc' = "cm_restraint"
               /\ UNCHANGED <<mode, prmtopfile, keywords, outcome, stdout, system,
                              topology, positions, boxvectors, integrator, parameter,
                              cparams, frictionCoeff, MDstepsize, atmforce, displ,
                              lig1offset, lig2offset, refatoms1, refatoms2, calls>>

\* [int(i) for i in x] if x else None
RestraintAtoms(x) ==
    IF Truthy(x)
    THEN LET r == IntList(x) IN IF r.exc # "" THEN r ELSE Ok(PyList(r.val))
    ELSE Ok(None_)

\* ABFE line 126: the restraint is added when neither keyword is None.
ABFERestraintsPresent(cm_rcpt_atoms, cm_lig_atoms) ==
    cm_rcpt_atoms # None_ /\ cm_lig_atoms # None_

\* LIGOFFSET: the split floats when given non-empty, else the value itself.
LigOffset(x) ==
    IF Truthy(x)
    THEN LET r == SplitFloats(x) IN IF r.exc # "" THEN r ELSE Ok(PyList(r.val))
    ELSE Ok(x)

\* The centre-of-mass restraint between the ligand and the receptor.
ABFE_CMRestraint ==
    /\ mode = "ABFE" /\ pc = "cm_restraint" /\ outcome = "running"
    /\ LET cm_lig_atoms == Get(keywords, "LIGAND_CM_ATOMS")
           cm_rcpt_atoms == Get(keywords, "RCPT_CM_ATOMS")
           lig_atom_restr == RestraintAtoms(cm_lig_atoms)
           rcpt_atom_restr == RestraintAtoms(cm_rcpt_atoms)
           present == ABFERestraintsPresent(cm_rcpt_atoms, cm_lig_atoms)
           cmkf == PyFloat(Get(keywords, "CM_KF"))
           cmtol == PyFloat(Get(keywords, "CM_TOL"))
           ligoffset == LigOffset(Get(keywords, "LIGOFFSET"))
           exc == IF FirstExc(<<lig_atom_restr, rcpt_atom_restr>>) # ""
                  THEN FirstExc(<<lig_atom_restr, rcpt_atom_restr>>)
                  ELSE IF present THEN FirstExc(<<cmkf, cmtol, ligoffset>>) ELSE ""
       IN IF exc # "" THEN Abort(exc, <<>>)
          ELSE /\ locals' = [locals EXCEPT !.lig_atom_restr = lig_atom_restr.val,
                                           !.rcpt_atom_restr = rcpt_atom_restr.val]
               /\ calls' = IF present
                           THEN Append(calls,
                                  [op |-> "addRestraintForce",
                                   arg |-> [lig_cm_particles |-> lig_atom_restr.val,
                                            rcpt_cm_particles |-> rcpt_atom_restr.val,
                                            kfcm |-> cmkf.val, tolcm |-> cmtol.val,
                                            offset |-> ligoffset.val]])
                           ELSE calls
               /\ pc' = "posre"
               /\ UNCHANGED <<mode, prmtopfile, keywords, outcome, stdout, system,
                              topology, positions, boxvectors, integrator, parameter,
                              cparams, frictionCoeff, MDstepsize, atmforce, displ,
                              lig1offset, lig2offset, refatoms1, refatoms2>>

ABFE_PosRestraints == mode = "ABFE" /\ PosRestraints("softcore")
ABFE_SoftCore == mode = "ABFE" /\ SoftCore("displ")

\* DISPLACEMENT is required: tested against None.
ABFE_Displacement ==
    /\ mode = "ABFE" /\ pc = "displ" /\ outcome = "running"
    /\ LET x == Get(keywords, "DISPLACEMENT")
           d == SplitFloats(x)
           quit == SelfExit("Error: DISPLACEMENT is required")
       IN IF x = None_ THEN Abort(quit.exc, quit.out)
          ELSE IF d.exc # "" THEN Abort(d.exc, <<>>)
          ELSE /\ displ' = PyList(d.val)
               /\ pc' = "atmforce"
               /\ UNCHANGED <<mode, prmtopfile, keywords, outcome, stdout, system,
                              topology, positions, boxvectors, integrator, parameter,
                              cparams, frictionCoeff, MDstepsize, atmforce,
                              lig1offset, lig2offset, refatoms1, refatoms2, locals,
                              calls>>

ABFE_ATMForce ==
    mode = "ABFE" /\ AddATMForce(ABFEParticles(topology.natoms, locals, displ.v))
ABFE_Barostat == mode = "ABFE" /\ AddBarostat("sforce")
ABFE_SForce == mode = "ABFE" /\ AddSForce("integrator")
ABFE_Integrator == mode = "ABFE" /\ SetIntegrator(ATMForceGroups, "cparams", "running")
ABFE_Cparams == mode = "ABFE" /\ SetCparams


----------------------------------------------------------------------------
\* OMMSystemAmberRBFE.create_system

RBFE_Load == mode = "RBFE" /\ LoadFiles(FALSE, "lig_atoms")

\* LIGAND1_ATOMS and LIGAND2_ATOMS are required.
RBFE_LigAtoms ==
    /\ mode = "RBFE" /\ pc = "lig_atoms" /\ outcome = "running"
    /\ LET lig1 == Get(keywords, "LIGAND1_ATOMS")
           lig2 == Get(keywords, "LIGAND2_ATOMS")
           atoms1 == IntList(lig1)
           atoms2 == IntList(lig2)
           quit1 == SelfExit("Error: LIGAND1_ATOMS is required")
           quit2 == SelfExit("Error: LIGAND2_ATOMS is required")
       IN IF ~Truthy(lig1) THEN Abort(quit1.exc, quit1.out)
          ELSE IF atoms1.exc # "" THEN Abort(atoms1.exc, <<>>)
          ELSE IF ~Truthy(lig2) THEN Abort(quit2.exc, quit2.out)
          ELSE IF atoms2.exc # "" THEN Abort(atoms2.exc, <<>>)
          ELSE /\ locals' = [locals EXCEPT !.lig_atoms = PyList(atoms1.val),
                                           !.lig2_atoms = PyList(atoms2.val)]
               /\ pc' = "restr_atoms"
               /\ UNCHANGED <<mode, prmtopfile, keywords, outcome, stdout, system,
                              topology, positions, boxvectors, integrator, parameter,
                              cparams, frictionCoeff, MDstepsize, atmforce, displ,
                              lig1offset, lig2offset, refatoms1, refatoms2, calls>>

\* The atoms of the two ligand restraints and of the receptor.
RBFE_RestraintAtoms ==
    /\ mode = "RBFE" /\ pc = "restr_atoms" /\ outcome = "running"
    /\ LET lig1_atom_restr == RestraintAtoms(Get(keywords, "REST_LIGAND1_CMLIG_ATOMS"))
           lig2_atom_restr == RestraintAtoms(Get(keywords, "REST_LIGAND2_CMLIG_ATOMS"))
           rcpt_atom_restr == RestraintAtoms(Get(keywords, "REST_LIGAND_CMREC_ATOMS"))
           exc == FirstExc(<<lig1_atom_restr, lig2_atom_restr, rcpt_atom_restr>>)
       IN IF exc # "" THEN Abort(exc, <<>>)
          ELSE /\ locals' = [locals EXCEPT !.lig_atom_restr = lig1_atom_restr.val,
                                           !.lig2_atom_restr = lig2_atom_restr.val,
                                           !.rcpt_atom_restr = rcpt_atom_restr.val]
               /\ pc' = "displ"
               /\ UNCHANGED <<mode, prmtopfile, keywords, outcome, stdout, system,
                              topology, positions, boxvectors, integrator, parameter,
                              cparams, frictionCoeff, MDstepsize, atmforce, displ,
                              lig1offset, lig2offset, refatoms1, refatoms2, calls>>

\* [float(0.0*offset) for offset in displ] and [float(offset) for offset in displ]
Lig1Offset(d) == [k \in 1..Len(d) |-> 0 * d[k]]
Lig2Offset(d) == [k \in 1..Len(d) |-> d[k]]

\* DISPLACEMENT is required: tested for truth.
RBFE_Displacement ==
    /\ mode = "RBFE" /\ pc = "displ" /\ outcome = "running"
    /\ LET x == Get(keywords, "DISPLACEMENT")
           d == SplitFloats(x)
           quit == SelfExit("DISPLACEMENT is required")
       IN IF ~Truthy(x) THEN Abort(quit.exc, quit.out)
          ELSE IF d.exc # "" THEN Abort(d.exc, <<>>)
          ELSE /\ displ' = PyList(d.val)
               /\ lig1offset' = PyList(Lig1Offset(d.val))
               /\ lig2offset' = PyList(Lig2Offset(d.val))
               /\ pc' = "cm_restraint"
               /\ UNCHANGED <<mode, prmtopfile, keywords, outcome, stdout, system,
                              topology, positions, boxvectors, integrator, parameter,
                              cparams, frictionCoeff, MDstepsize, atmforce,
                              refatoms1, refatoms2, locals, calls>>

\* A presence test that is satisfied by any one of the three atom lists.
RBFEAnyRestraintPresent(l) ==
    l.rcpt_atom_restr # None_ \/ l.lig_atom_restr # None_ \/ l.lig2_atom_restr # None_

\* RBFE line 272: the restraints are added when all three atom lists are.
RBFERestraintsPresent(l) ==
    l.rcpt_atom_restr # None_ /\ l.lig_atom_restr # None_ /\ l.lig2_atom_restr # None_

\* The two addRestraintForce calls of lines 281-290.
RBFERestraintCalls(l, kf, r0) ==
    << [op |-> "addRestraintForce",
        arg |-> [lig_cm_particles |-> l.lig_atom_restr,
                 rcpt_cm_particles |-> l.rcpt_atom_restr,
                 kfcm |-> kf, tolcm |-> r0, offset |-> lig1offset]],
       [op |-> "addRestraintForce",
        arg |-> [lig_cm_particles |-> l.lig2_atom_restr,
                 rcpt_cm_particles |-> l.rcpt_atom_restr,
                 kfcm |-> kf, tolcm |-> r0, offset |-> lig2offset]] >>

RBFE_CMRestraint ==
    /\ mode = "RBFE" /\ pc = "cm_restraint" /\ outcome = "running"
    /\ LET present == RBFERestraintsPresent(locals)
           cmkf == PyFloat(Get(keywords, "CM_KF"))
           cmtol == PyFloat(Get(keywords, "CM_TOL"))
           exc == IF present THEN FirstExc(<<cmkf, cmtol>>) ELSE ""
       IN IF exc # "" THEN Abort(exc, <<>>)
          ELSE /\ calls' = IF present
                           THEN calls \o RBFERestraintCalls(locals, cmkf.val, cmtol.val)
                           ELSE calls
               /\ pc' = "align"
               /\ UNCHANGED <<mode, prmtopfile, keywords, outcome, stdout, system,
                              topology, positions, boxvectors, integrator, parameter,
                              cparams, frictionCoeff, MDstepsize, atmforce, displ,
                              lig1offset, lig2offset, refatoms1, refatoms2, locals>>

\* [refatoms[i] + lig_atoms[0] for i in range(3)]
RefParticles(refatoms, lig_atoms) ==
    IF Len(refatoms) < 3 THEN Raise("IndexError")
    ELSE Ok([k \in 1..3 |-> refatoms[k] + lig_atoms[1]])

\* The alignment force between the reference atoms of the two ligands.  An
\* exception leaves the self.refatoms fields assigned before it.
RBFE_Alignment ==
    /\ mode = "RBFE" /\ pc = "align" /\ outcome = "running"
    /\ LET r1 == IntList(Get(keywords, "ALIGN_LIGAND1_REF_ATOMS"))
           p1 == RefParticles(r1.val, locals.lig_atoms.v)
           r2 == IntList(Get(keywords, "ALIGN_LIGAND2_REF_ATOMS"))
           p2 == RefParticles(r2.val, locals.lig2_atoms.v)
           kfdispl == PyFloat(Get(keywords, "ALIGN_KF_SEP"))
           ktheta == PyFloat(Get(keywords, "ALIGN_K_THETA"))
           kpsi == PyFloat(Get(keywords, "ALIGN_K_PSI"))
           exc == IF r1.exc # "" THEN r1.exc
                  ELSE IF p1.exc # "" THEN p1.exc
                  ELSE IF r2.exc # "" THEN r2.exc
                  ELSE IF p2.exc # "" THEN p2.exc
                  ELSE FirstExc(<<kfdispl, ktheta, kpsi>>)
       IN /\ refatoms1' = IF r1.exc = "" THEN PyList(r1.val) ELSE refatoms1
          /\ refatoms2' = IF r1.exc = "" /\ p1.exc = "" /\ r2.exc = ""
                          THEN PyList(r2.val) ELSE refatoms2
          /\ IF exc # ""
             THEN /\ outcome' = exc
                  /\ UNCHANGED <<pc, calls>>
             ELSE /\ calls' = Append(calls,
                                [op |-> "addAlignmentForce",
                                 arg |-> [liga_ref_particles |-> p1.val,
                                          ligb_ref_particles |-> p2.val,
                                          kfdispl |-> kfdispl.val, ktheta |-> ktheta.val,
                                          kpsi |-> kpsi.val, offset |-> lig2offset]])
                  /\ pc' = "posre"
                  /\ outcome' = outcome
    /\ UNCHANGED <<mode, prmtopfile, keywords, stdout, system, topology, positions,
                   boxvectors, integrator, parameter, cparams, frictionCoeff,
                   MDstepsize, atmforce, displ, lig1offset, lig2offset, locals>>

RBFE_PosRestraints == mode = "RBFE" /\ PosRestraints("softcore")
RBFE_SoftCore == mode = "RBFE" /\ SoftCore("atmforce")
RBFE_ATMForce ==
    mode = "RBFE" /\ AddATMForce(RBFEParticles(topology.natoms, locals, displ.v))
RBFE_Barostat == mode = "RBFE" /\ AddBarostat("sforce")
RBFE_SForce == mode = "RBFE" /\ AddSForce("integrator")
RBFE_Integrator == mode = "RBFE" /\ SetIntegrator(ATMForceGroups, "cparams", "running")
RBFE_Cparams == mode = "RBFE" /\ SetCparams

----------------------------------------------------------------------------
Next ==
    \/ Construct
    \/ TRE_Load \/ TRE_Barostat \/ TRE_SForce \/ TRE_Integrator
    \/ ABFE_Load \/ ABFE_LigAtoms \/ ABFE_CMRestraint \/ ABFE_PosRestraints
    \/ ABFE_SoftCore \/ ABFE_Displacement \/ ABFE_ATMForce \/ ABFE_Barostat
    \/ ABFE_SForce \/ ABFE_Integrator \/ ABFE_Cparams
    \/ RBFE_Load \/ RBFE_LigAtoms \/ RBFE_RestraintAtoms \/ RBFE_Displacement
    \/ RBFE_CMRestraint \/ RBFE_Alignment \/ RBFE_PosRestraints \/ RBFE_SoftCore
    \/ RBFE_ATMForce \/ RBFE_Barostat \/ RBFE_SForce \/ RBFE_Integrator
    \/ RBFE_Cparams

Spec == Init /\ [][Next]_vars


----------------------------------------------------------------------------
\* What the properties are stated with: the values written in the control
\* file, read directly from keywords, and the calls made so far.

Given(k) == k \in DOMAIN keywords
GivenNonEmpty(k) == Given(k) /\ keywords[k].v # <<>> /\ keywords[k].v # <<"">>
ValuesOf(k) == [i \in 1..Len(keywords[k].v) |-> Numeral[keywords[k].v[i]]]
ListedIn(k) == {Numeral[keywords[k].v[i]] : i \in 1..Len(keywords[k].v)}
ValueOf(k) == Numeral[keywords[k].v[1]]

Failed == outcome \notin {"running", "ok"}
Succeeded == outcome = "ok"

IsOp(c, op) == c.op = op
IsForce(c, t) == c.op = "addForce" /\ c.arg.t = t
CallsOf(op) == SelectSeq(calls, LAMBDA c : IsOp(c, op))
ForcesOf(t) == SelectSeq(calls, LAMBDA c : IsForce(c, t))
PositionsOf(t) == {i \in 1..Len(calls) : IsForce(calls[i], t)}
PositionsOfOp(op) == {i \in 1..Len(calls) : IsOp(calls[i], op)}

\* The required-field error: the message printed, the process exited with 1.
RequiredFieldError(msg) == outcome = "SystemExit(1)" /\ stdout = <<msg>>

NothingBuiltLater ==
    /\ atmforce = None_ /\ integrator = None_
    /\ \A i \in 1..Len(calls) : calls[i].op # "addForce"

----------------------------------------------------------------------------
\* C1: when LIGAND_ATOMS or DISPLACEMENT (ABFE), or LIGAND1_ATOMS,
\* LIGAND2_ATOMS or DISPLACEMENT (RBFE) is absent, create_system stops at its
\* check with the message printed and exit status 1, and no ATM force,
\* barostat or integrator is created afterwards.
C1_MissingKeywordExits ==
    /\ (mode = "ABFE" /\ pc = "lig_atoms" /\ Failed /\ ~Given("LIGAND_ATOMS"))
          => RequiredFieldError("Error: LIGAND_ATOMS is required") /\ NothingBuiltLater
    /\ (mode = "ABFE" /\ pc = "displ" /\ Failed /\ ~Given("DISPLACEMENT"))
          => RequiredFieldError("Error: DISPLACEMENT is required") /\ NothingBuiltLater
    /\ (mode = "RBFE" /\ pc = "lig_atoms" /\ Failed /\ ~Given("LIGAND1_ATOMS"))
          => RequiredFieldError("Error: LIGAND1_ATOMS is required") /\ NothingBuiltLater
    /\ (mode = "RBFE" /\ pc = "lig_atoms" /\ Failed /\ GivenNonEmpty("LIGAND1_ATOMS")
            /\ ~Given("LIGAND2_ATOMS"))
          => RequiredFieldError("Error: LIGAND2_ATOMS is required") /\ NothingBuiltLater
    /\ (mode = "RBFE" /\ pc = "displ" /\ Failed /\ ~Given("DISPLACEMENT"))
          => RequiredFieldError("DISPLACEMENT is required") /\ NothingBuiltLater

\* C2: after create_system returns normally, in each of the three modes,
\* system, topology, positions, boxvectors and integrator are all set.
C2_AllOutputsSet ==
    Succeeded =>
        /\ system # None_ /\ topology # None_ /\ positions # None_
        /\ boxvectors # None_ /\ integrator # None_

\* C3: a keyword that is needed unconditionally but never tested
\* (FRICTION_COEFF, TIME_STEP; UMAX, ACORE; the five ALIGN_ keywords of RBFE)
\* ends, when absent, in the required-field error and in no other failure.
C3_UntestedKeywordIsRequiredFieldError ==
    /\ (pc = "init" /\ Failed /\ (~Given("FRICTION_COEFF") \/ ~Given("TIME_STEP")))
          => outcome = "SystemExit(1)" /\ Len(stdout) = 1
    /\ (pc = "softcore" /\ Failed /\ (~Given("UMAX") \/ ~Given("ACORE")))
          => outcome = "SystemExit(1)" /\ Len(stdout) = 1
    /\ (mode = "RBFE" /\ pc = "align" /\ Failed
            /\ \E k \in {"ALIGN_LIGAND1_REF_ATOMS", "ALIGN_LIGAND2_REF_ATOMS",
                         "ALIGN_KF_SEP", "ALIGN_K_THETA", "ALIGN_K_PSI"} : ~Given(k))
          => outcome = "SystemExit(1)" /\ Len(stdout) = 1

\* The names the constructors store, by mode.
ConstructedNames ==
    {<<"stateid", "REStateId">>, <<"cycle", "RECycle">>, <<"mdsteps", "REMDSteps">>,
     <<"temperature", "RETemperature">>, <<"potential_energy", "REPotEnergy">>}
    \cup (IF mode = "TRE" THEN {} ELSE {<<"perturbation_energy", "REPertEnergy">>})

\* C4: once the builder is constructed no step of create_system, completing
\* or failing, changes the keywords dictionary or self.parameter, and
\* self.parameter holds exactly the entries of the constructors.
C4_ConfigurationReadOnly ==
    [][ /\ keywords' = keywords
        /\ pc # "init" =>
              /\ parameter' = parameter
              /\ {parameter[i] : i \in 1..Len(parameter)} = ConstructedNames
              /\ Len(parameter) = Cardinality(ConstructedNames) ]_vars

C4_Witness ==
    /\ mode = "ABFE" /\ Succeeded /\ Len(parameter) = 6
    /\ DOMAIN keywords = KeysOf("ABFE")

\* C5: in ABFE addRestraintForce is called once when LIGAND_CM_ATOMS and
\* RCPT_CM_ATOMS are both given and not otherwise, and each time it is called
\* both particle arguments are lists of atom indices, never None, also when a
\* keyword is given as an empty list.
C5_CMRestraintGetsAtomLists ==
    mode = "ABFE" =>
        /\ pc \in {"posre", "softcore", "displ", "atmforce", "barostat", "sforce",
                   "integrator", "cparams", "done"}
              => Len(CallsOf("addRestraintForce")) =
                    IF Given("LIGAND_CM_ATOMS") /\ Given("RCPT_CM_ATOMS") THEN 1 ELSE 0
        /\ \A i \in PositionsOfOp("addRestraintForce") :
              /\ calls[i].arg.lig_cm_particles.t = "list"
              /\ calls[i].arg.rcpt_cm_particles.t = "list"

\* What atom i of the ATM force must carry.
ExpectedDisplacement(i) ==
    LET D == ValuesOf("DISPLACEMENT")
    IN IF mode = "ABFE"
       THEN IF i \in ListedIn("LIGAND_ATOMS") THEN <<D[1], D[2], D[3]>> ELSE <<0, 0, 0>>
       ELSE IF i \in ListedIn("LIGAND2_ATOMS") THEN <<0 - D[1], 0 - D[2], 0 - D[3]>>
       ELSE IF i \in ListedIn("LIGAND1_ATOMS") THEN <<D[1], D[2], D[3]>>
       ELSE <<0, 0, 0>>

\* C6: after a successful ABFE or RBFE create_system the ATM force has one
\* particle per atom of the topology, entry i for atom i; ligand atoms carry
\* the displacement (ABFE), ligand 2 atoms the negated displacement and the
\* other ligand 1 atoms the displacement (RBFE), all other atoms zero.
C6_ATMParticles ==
    (Succeeded /\ mode \in {"ABFE", "RBFE"}) =>
        /\ Len(atmforce.particles) = prmtopfile.natoms
        /\ \A i \in 0..(prmtopfile.natoms - 1) :
              /\ atmforce.particles[i + 1].particle = i
              /\ atmforce.particles[i + 1].d = ExpectedDisplacement(i)
        /\ Len(ForcesOf("ATMMetaForce")) = 1
        /\ ForcesOf("ATMMetaForce")[1].arg = atmforce

C6_Witness ==
    /\ Succeeded /\ mode = "RBFE"
    /\ ListedIn("LIGAND1_ATOMS") \cap ListedIn("LIGAND2_ATOMS") # {}
    /\ \E i \in 1..Len(atmforce.particles) : atmforce.particles[i].d = <<0, 0, 0>>


\* The groups of create_system that follow the RBFE restraint statements, and
\* those that follow the alignment statements.
AfterRestraints ==
    {"align", "posre", "softcore", "atmforce", "barostat", "sforce", "integrator",
     "cparams", "done"}
AfterAlignment == AfterRestraints \ {"align"}

RestraintsRequested ==
    /\ GivenNonEmpty("REST_LIGAND1_CMLIG_ATOMS")
    /\ GivenNonEmpty("REST_LIGAND2_CMLIG_ATOMS")
    /\ GivenNonEmpty("REST_LIGAND_CMREC_ATOMS")

ZeroOffset == [k \in 1..Len(keywords["DISPLACEMENT"].v) |-> 0]

\* C7: in RBFE the two ligand restraints come together or not at all: two
\* addRestraintForce calls when the three REST_ keywords are given non-empty
\* (ligand 1 with zero offset, then ligand 2 with the displacement as offset,
\* same receptor atoms, force constant and tolerance), none otherwise; and
\* one alignment force in either case, its offset the displacement, its
\* reference particles refatoms[k] + the ligand's first atom, k = 0, 1, 2.
C7_RBFERestraintsAndAlignment ==
    mode = "RBFE" =>
        LET R == CallsOf("addRestraintForce")
            A == CallsOf("addAlignmentForce")
        IN /\ Len(R) \in {0, 2}
           /\ Len(R) = 2 => RestraintsRequested
           /\ pc \in AfterRestraints =>
                 /\ Len(R) = 2 <=> RestraintsRequested
                 /\ Len(R) = 2 =>
                       /\ R[1].arg = [lig_cm_particles |-> PyList(ValuesOf("REST_LIGAND1_CMLIG_ATOMS")),
                                      rcpt_cm_particles |-> PyList(ValuesOf("REST_LIGAND_CMREC_ATOMS")),
                                      kfcm |-> ValueOf("CM_KF"), tolcm |-> ValueOf("CM_TOL"),
                                      offset |-> PyList(ZeroOffset)]
                       /\ R[2].arg = [lig_cm_particles |-> PyList(ValuesOf("REST_LIGAND2_CMLIG_ATOMS")),
                                      rcpt_cm_particles |-> PyList(ValuesOf("REST_LIGAND_CMREC_ATOMS")),
                                      kfcm |-> ValueOf("CM_KF"), tolcm |-> ValueOf("CM_TOL"),
                                      offset |-> PyList(ValuesOf("DISPLACEMENT"))]
                       /\ PositionsOfOp("addRestraintForce") = {1, 2}
           /\ Len(A) = IF pc \in AfterAlignment THEN 1 ELSE 0
           /\ pc \in AfterAlignment =>
                 /\ A[1].arg.offset = PyList(ValuesOf("DISPLACEMENT"))
                 /\ A[1].arg.liga_ref_particles =
                       [k \in 1..3 |-> ValuesOf("ALIGN_LIGAND1_REF_ATOMS")[k]
                                         + ValuesOf("LIGAND1_ATOMS")[1]]
                 /\ A[1].arg.ligb_ref_particles =
                       [k \in 1..3 |-> ValuesOf("ALIGN_LIGAND2_REF_ATOMS")[k]
                                         + ValuesOf("LIGAND2_ATOMS")[1]]

C7_Witness ==
    /\ mode = "RBFE" /\ Succeeded
    /\ Len(CallsOf("addRestraintForce")) = 2
    /\ Len(CallsOf("addAlignmentForce")) = 1

UtilityOps == {"addRestraintForce", "addAlignmentForce", "addPosRestraints"}

\* The order of the optional calls: restraints, then alignment, then position
\* restraints.
OptionalRank(op) ==
    CASE op = "addRestraintForce" -> 1
      [] op = "addAlignmentForce" -> 2
      [] op = "addPosRestraints" -> 3

\* C8: a successful create_system adds, after the optional restraint,
\* alignment and position-restraint forces, one ATM force in group 3 (ABFE,
\* RBFE), then one barostat in group 1 with frequency 0, then one
\* state-storage force in group 1; the integrator is assigned after all of
\* them and, in ABFE and RBFE, integrates the groups {1, 3}.
C8_ForceOrder ==
    LET n == Len(calls)
        fixed == IF mode = "TRE" THEN 2 ELSE 3
    IN /\ integrator # None_ =>
             /\ Cardinality(PositionsOf("MonteCarloBarostat")) = 1
             /\ Cardinality(PositionsOf("CustomBondForce")) = 1
             /\ mode # "TRE" => Cardinality(PositionsOf("ATMMetaForce")) = 1
             /\ mode # "TRE" => integrator.groups = {1, 3}
       /\ Succeeded =>
             /\ integrator # None_
             /\ n >= fixed
             /\ \A i \in 1..(n - fixed) : calls[i].op \in UtilityOps
             /\ \A i, j \in 1..(n - fixed) :
                   i < j => OptionalRank(calls[i].op) <= OptionalRank(calls[j].op)
             /\ mode # "TRE" => IsForce(calls[n - 2], "ATMMetaForce")
                                  /\ calls[n - 2].arg.group = 3
             /\ IsForce(calls[n - 1], "MonteCarloBarostat")
             /\ calls[n - 1].arg.group = 1 /\ calls[n - 1].arg.frequency = 0
             /\ IsForce(calls[n], "CustomBondForce") /\ calls[n].arg.group = 1

C8_Witness ==
    /\ mode = "RBFE" /\ Succeeded
    /\ PositionsOfOp("addRestraintForce") = {1, 2}
    /\ PositionsOfOp("addAlignmentForce") = {3}
    /\ PositionsOfOp("addPosRestraints") = {4}
    /\ Len(calls) = 7

DictKeys(d) == [i \in 1..Len(d) |-> d[i][1]]

\* C9: cparams is empty until the last step of create_system; after a
\* successful ABFE or RBFE run it holds exactly ATMUmax, ATMUbcore and
\* ATMAcore with the soft-core values given to the ATM force, ATMUbcore 0
\* when UBCORE is absent or empty; after TRE and after a failure it is empty.
C9_ControlParameters ==
    /\ (pc # "done" \/ mode = "TRE") => cparams = <<>>
    /\ (Succeeded /\ mode # "TRE") =>
          /\ DictKeys(cparams) = <<"ATMUmax", "ATMUbcore", "ATMAcore">>
          /\ cparams[1][2] = atmforce.umax
          /\ cparams[2][2] = atmforce.ubcore
          /\ cparams[3][2] = atmforce.acore
          /\ cparams[1][2] = 4184 * ValueOf("UMAX")
          /\ cparams[3][2] = ValueOf("ACORE")
          /\ cparams[2][2] = IF GivenNonEmpty("UBCORE")
                             THEN 4184 * ValueOf("UBCORE") ELSE 0

C9_Witness ==
    /\ mode = "ABFE" /\ Succeeded /\ ~Given("UBCORE")
    /\ Len(cparams) = 3 /\ cparams[2][2] = 0 /\ cparams[1][2] # 0

StoredNames ==
    <<"REStateId", "RECycle", "REMDSteps", "RETemperature", "REPotEnergy">>
    \o (IF mode = "TRE" THEN <<>> ELSE <<"REPertEnergy">>)

\* C10: the state-storage force registers one global parameter per entry of
\* self.parameter, each with initial value 0, with pairwise distinct names:
\* the five RE names in TRE, those and REPertEnergy in ABFE and RBFE.
C10_StoredGlobals ==
    \A i \in PositionsOf("CustomBondForce") :
        LET g == calls[i].arg.globals
        IN /\ Len(g) = Len(parameter)
           /\ Len(g) = Len(StoredNames)
           /\ \A k \in 1..Len(g) : g[k][2] = 0
           /\ {g[k][1] : k \in 1..Len(g)} = {StoredNames[k] : k \in 1..Len(StoredNames)}
           /\ \A j, k \in 1..Len(g) : j # k => g[j][1] # g[k][1]

C10_Witness ==
    /\ mode = "TRE" /\ Succeeded
    /\ \E i \in PositionsOf("CustomBondForce") : Len(calls[i].arg.globals) = 5

====
